---- MODULE Spec2Model ----
(***************************************************************************)
(* Model of the mbed quadrature encoder interface (QEI.cpp / QEI.h).       *)
(*                                                                         *)
(* The application thread calls reset/read/write/getSpeed/getPosition and  *)
(* the two factor setters; the interrupt handlers encode() and index()     *)
(* run to completion and may preempt the application between any two of    *)
(* its memory accesses.  getSpeed() drains the speed window with           *)
(* interrupts disabled; the rest of getSpeed() touches only fields that    *)
(* no handler reads or writes, so the whole call is one step.  reset()     *)
(* has no critical section and is two steps.                               *)
(*                                                                         *)
(* float values are modelled as exact rationals <<num, den>> in lowest     *)
(* terms (den > 0): rounding is not modelled.                              *)
(***************************************************************************)
EXTENDS Integers, Sequences, FiniteSets, TLC

\* ---------------------------------------------------------------- bounds
MaxPulses == 4
MaxRevolutions == 2
MaxTimer == 3000
MaxCount == 3
MaxTimeouts == 1
MaxEvents == 6
MaxIdleQueries == 12
MaxIdlePulses == 2
MaxIdleTimer == 1000
\* the edge specification: repeated and invalid samples around a window
MaxEdgeTimer == 2000
MaxEdgeCount == 2

\* ------------------------------------------------------ program constants
X2_ENCODING == 0
X4_ENCODING == 1
PREV_MASK == 1
CURR_MASK == 2
INVALID == 3
TimeoutMax == 10
MicrosPerSecond == 1000000

\* ------------------------------------------------------- input domains
States == 0..3
PulseRange == (0 - MaxPulses)..MaxPulses
TickSteps == {1000}

\* --------------------------------------------------------------- floats
Abs(x) == IF x < 0 THEN 0 - x ELSE x

RECURSIVE GCD(_, _)
GCD(a, b) == IF b = 0 THEN a ELSE GCD(b, a % b)

Rat(n, d) ==
  LET g == GCD(Abs(n), Abs(d))
      s == IF d < 0 THEN 0 - 1 ELSE 1
  IN  <<(s * n) \div g, (s * d) \div g>>

RatOfInt(i) == <<i, 1>>
RatMul(a, b) == Rat(a[1] * b[1], a[2] * b[2])
RatDiv(a, b) == Rat(a[1] * b[2], a[2] * b[1])
RatZero == <<0, 1>>
RatOne == <<1, 1>>
RatHalf == <<1, 2>>

FactorValues == {RatZero, <<0 - 1, 2>>, <<2, 1>>}
SpeedFactorValues == {RatZero, <<0 - 1, 2>>}

\* ---------------------------------------------------------- bit helpers
BitAnd(a, b) ==
  2 * (((a \div 2) % 2) * ((b \div 2) % 2)) + (a % 2) * (b % 2)
BitXor1(a, b) == (a + b) % 2
BitXor2(a, b) == 2 * BitXor1(a \div 2, b \div 2) + BitXor1(a % 2, b % 2)

VARIABLES
  \* the object's fields
  encoding, prevState, currState, pulses, revolutions,
  fSpeedFactor, fPositionFactor,
  nSpeedLastTimer, nSpeedAvrTimeSum, nSpeedAvrTimeCount,
  fLastSpeed, nSpeedTimeoutCount,
  \* the microsecond timer's reading, and where the application thread is
  SpeedTimer, pc,
  \* the value the last call returned (0 for a void one)
  ret,
  \* observation of the last operation: its name and argument, the values it
  \* replaced, and whether a handler ran inside reset()
  lastOp, arg, oldPrev, oldPulses, oldRevolutions, resetIrq,
  \* observation of the run of samples fed to encode()
  pat, patLen, patFwd, patBwd,
  \* observation of the valid pulses since construction
  everPulse, queried, scenN, scenD, scenT,
  \* observation of what the window owes the next query: the pulses and the
  \* signed deltas accumulated and not yet drained, the time of the last
  \* valid pulse, and the run of queries that found the window empty
  owedCount, owedSum, lastPulseT, idleRun,
  \* observation of the directions of the pulses owed to the next query
  owedDir,
  \* observation of the walk on the gray-code cycle: the state sampled at
  \* construction, the net number of steps, and whether the walk is intact
  origin, lift, clean

progVars == <<encoding, prevState, currState, pulses, revolutions,
              fSpeedFactor, fPositionFactor,
              nSpeedLastTimer, nSpeedAvrTimeSum, nSpeedAvrTimeCount,
              fLastSpeed, nSpeedTimeoutCount, SpeedTimer, pc>>
opVars == <<lastOp, arg, oldPrev, oldPulses, oldRevolutions, resetIrq>>
patVars == <<pat, patLen, patFwd, patBwd>>
scenVars == <<everPulse, queried, scenN, scenD, scenT>>
flowVars == <<owedCount, owedSum, lastPulseT, idleRun>>
grayVars == <<origin, lift, clean>>
vars == <<progVars, ret, opVars, patVars, scenVars, flowVars, owedDir,
          grayVars>>

\* ------------------------------------------------------------ decoder
\* change as computed by encode(): -1 none, 0 forward, 1 backward
\* a decoder with the 2x table made symmetric (00 -> 11 counted forward)
X2Change_Symmetric(prev, curr) ==
  IF (prev = 3 /\ curr = 0) \/ (prev = 0 /\ curr = 3) THEN 0
  ELSE IF (prev = 2 /\ curr = 1) \/ (prev = 1 /\ curr = 2) THEN 1
  ELSE 0 - 1

X2Change(prev, curr) ==
  IF (prev = 3 /\ curr = 0) \/ (prev = 0 /\ curr = 2) THEN 0
  ELSE IF (prev = 2 /\ curr = 1) \/ (prev = 1 /\ curr = 2) THEN 1
  ELSE 0 - 1

\* a decoder that takes the direction from the low bit of the current state
X4Change_LowBit(prev, curr) ==
  IF BitXor2(curr, prev) # INVALID /\ curr # prev
  THEN BitXor1(BitAnd(prev, PREV_MASK), BitAnd(curr, PREV_MASK))
  ELSE 0 - 1

\* a decoder that does not reject a change of both bits
X4Change_NoInvalid(prev, curr) ==
  IF curr # prev
  THEN BitXor1(BitAnd(prev, PREV_MASK), BitAnd(curr, CURR_MASK) \div 2)
  ELSE 0 - 1

\* a 4x decoder that does not test for an unchanged state
X4Change_NoSameCheck(prev, curr) ==
  IF BitXor2(curr, prev) # INVALID
  THEN BitXor1(BitAnd(prev, PREV_MASK), BitAnd(curr, CURR_MASK) \div 2)
  ELSE 0 - 1

X4Change(prev, curr) ==
  IF BitXor2(curr, prev) # INVALID /\ curr # prev
  THEN BitXor1(BitAnd(prev, PREV_MASK), BitAnd(curr, CURR_MASK) \div 2)
  ELSE 0 - 1

Change(enc, prev, curr) ==
  IF enc = X2_ENCODING THEN X2Change(prev, curr)
  ELSE IF enc = X4_ENCODING THEN X4Change(prev, curr)
  ELSE 0 - 1

\* a pulse count that goes up on every valid transition
PulsesAfter_CountsUp(p, change) ==
  IF change = 0 \/ change = 1 THEN p + 1 ELSE p

PulsesAfter(p, change) ==
  IF change = 0 THEN p + 1 ELSE IF change = 1 THEN p - 1 ELSE p

\* a window that keeps the delta of the pulse that opens it
WindowSum_KeepsFirstDelta(sum, count, change, diff) ==
  IF count < 0 THEN diff
  ELSE IF change = 0 THEN sum + diff ELSE sum - diff

\* speed window after a valid pulse with time delta diff
WindowSum(sum, count, change, diff) ==
  IF count < 0 THEN 0
  ELSE IF change = 0 THEN sum + diff ELSE sum - diff

\* a window that counts the pulse that opens it
WindowCount_CountsFirst(count) == IF count < 0 THEN 1 ELSE count + 1

WindowCount(count) == IF count < 0 THEN 0 ELSE count + 1

\* a speed that decays as soon as the counter has reached the maximum
SpeedOf_HalvesAtMax(avrTimeSum, avrTimeCount, lastSpeed, timeoutCount, factor) ==
  IF avrTimeCount = 0
  THEN IF timeoutCount >= TimeoutMax THEN RatMul(lastSpeed, RatHalf)
       ELSE lastSpeed
  ELSE IF avrTimeCount < 0 \/ avrTimeSum = 0 THEN RatZero
  ELSE RatDiv(RatMul(RatOfInt(MicrosPerSecond), factor),
              Rat(avrTimeSum, avrTimeCount))

\* the value getSpeed() computes from the drained window
SpeedOf(avrTimeSum, avrTimeCount, lastSpeed, timeoutCount, factor) ==
  IF avrTimeCount = 0
  THEN IF timeoutCount > TimeoutMax THEN RatMul(lastSpeed, RatHalf)
       ELSE lastSpeed
  ELSE IF avrTimeCount < 0 \/ avrTimeSum = 0 THEN RatZero
  ELSE RatDiv(RatMul(RatOfInt(MicrosPerSecond), factor),
              Rat(avrTimeSum, avrTimeCount))

\* a counter that the never-started window does not clear
TimeoutAfter_SentinelCounts(avrTimeCount, timeoutCount) ==
  IF avrTimeCount <= 0 THEN timeoutCount + 1 ELSE 0

\* a counter that stops at the maximum
TimeoutAfter_Capped(avrTimeCount, timeoutCount) ==
  IF avrTimeCount = 0
  THEN (IF timeoutCount < TimeoutMax THEN timeoutCount + 1 ELSE TimeoutMax)
  ELSE 0

\* the timeout counter getSpeed() leaves behind
TimeoutAfter(avrTimeCount, timeoutCount) ==
  IF avrTimeCount = 0 THEN timeoutCount + 1 ELSE 0

\* a position that is not scaled
PositionOf_Unscaled(p, factor) == RatOfInt(p)

PositionOf(p, factor) == RatMul(RatOfInt(p), factor)

\* ------------------------------------------------------- observation
\* the sample sequences the decoder's documentation names
PatNames == {"cycle", "rcycle", "alt_11_00", "alt_10_01"}
PatSeq(p) ==
  CASE p = "cycle" -> <<0, 1, 3, 2, 0>>
    [] p = "rcycle" -> <<0, 2, 3, 1, 0>>
    [] p = "alt_11_00" -> <<3, 0, 3, 0, 3>>
    [] p = "alt_10_01" -> <<2, 1, 2, 1, 2>>
PatLenMax == Len(PatSeq("cycle")) - 1

Continues(p, len, prev, s) ==
  /\ p \in PatNames
  /\ len < PatLenMax
  /\ PatSeq(p)[len + 1] = prev
  /\ PatSeq(p)[len + 2] = s

Starts(p, prev, s) == PatSeq(p)[1] = prev /\ PatSeq(p)[2] = s

\* an encode() run that sampled s extends, starts or ends a run of samples;
\* a forward (backward) event is a run that raised (lowered) the pulse count
ObservePattern(s) ==
  LET fwd == IF pulses' = pulses + 1 THEN 1 ELSE 0
      bwd == IF pulses' = pulses - 1 THEN 1 ELSE 0
  IN
  IF Continues(pat, patLen, prevState, s)
  THEN /\ pat' = pat
       /\ patLen' = patLen + 1
       /\ patFwd' = patFwd + fwd
       /\ patBwd' = patBwd + bwd
  ELSE IF \E p \in PatNames : Starts(p, prevState, s)
  THEN /\ pat' = CHOOSE p \in PatNames : Starts(p, prevState, s)
       /\ patLen' = 1
       /\ patFwd' = fwd
       /\ patBwd' = bwd
  ELSE /\ pat' = "none"
       /\ patLen' = 0
       /\ patFwd' = 0
       /\ patBwd' = 0

ForgetPattern ==
  /\ pat' = "none"
  /\ patLen' = 0
  /\ patFwd' = 0
  /\ patBwd' = 0

\* the valid pulses since construction: scenN counts them while no speed
\* query came before them, all were forward and (from the third on) evenly
\* spaced by scenD; scenN = -1 once that is no longer so
ScenBroken ==
  /\ scenN' = 0 - 1
  /\ scenD' = 0 - 1
  /\ scenT' = 0

ObservePulse ==
  LET valid == pulses' # pulses
      forward == pulses' = pulses + 1
      gap == SpeedTimer - scenT
  IN
  /\ everPulse' = (everPulse \/ valid)
  /\ UNCHANGED queried
  /\ IF ~valid THEN UNCHANGED <<scenN, scenD, scenT>>
     ELSE IF scenN < 0 \/ queried \/ ~forward THEN ScenBroken
     ELSE IF scenN = 0
     THEN scenN' = 1 /\ scenD' = 0 - 1 /\ scenT' = SpeedTimer
     ELSE IF scenN = 1
     THEN scenN' = 2 /\ scenD' = gap /\ scenT' = SpeedTimer
     ELSE IF gap = scenD
     THEN scenN' = scenN + 1 /\ scenD' = scenD /\ scenT' = SpeedTimer
     ELSE ScenBroken

Max(a, b) == IF a >= b THEN a ELSE b

\* a valid pulse is owed to the next query, with its signed time delta,
\* once the window is open: after the first valid pulse or the first query
ObserveFlowPulse ==
  LET valid == pulses' # pulses
      forward == pulses' = pulses + 1
      opened == everPulse \/ queried
      delta == SpeedTimer - lastPulseT
  IN
  /\ UNCHANGED idleRun
  /\ lastPulseT' = IF valid THEN SpeedTimer ELSE lastPulseT
  /\ owedCount' = IF valid /\ opened THEN owedCount + 1 ELSE owedCount
  /\ owedSum' = IF valid /\ opened
                THEN (IF forward THEN owedSum + delta ELSE owedSum - delta)
                ELSE owedSum

\* a query takes what it read from the window (a count of -1 as 0)
ObserveFlowQuery ==
  /\ idleRun' = IF nSpeedAvrTimeCount = 0 THEN idleRun + 1 ELSE 0
  /\ owedCount' = owedCount - Max(nSpeedAvrTimeCount, 0)
  /\ owedSum' = owedSum - nSpeedAvrTimeSum
  /\ UNCHANGED lastPulseT

\* the directions of the pulses owed: none yet, all forward or all backward
\* with a time delta above zero, or anything else
ObserveDirPulse ==
  LET valid == pulses' # pulses
      forward == pulses' = pulses + 1
      opened == everPulse \/ queried
      delta == SpeedTimer - lastPulseT
      kind == IF delta = 0 THEN "mixed"
              ELSE IF forward THEN "forward" ELSE "backward"
  IN
  owedDir' = IF ~(valid /\ opened) THEN owedDir
             ELSE IF owedDir \in {"none", kind} THEN kind
             ELSE "mixed"

ObserveDirQuery == owedDir' = "none"

ObserveQuery ==
  /\ queried' = TRUE
  /\ UNCHANGED everPulse
  /\ IF queried THEN ScenBroken ELSE UNCHANGED <<scenN, scenD, scenT>>

\* what the decoder's claims observe of an operation: its name and argument,
\* the values it replaced, and whether a handler ran inside reset()
DecoderObs(op, a, oPrev, oPulses, oRevolutions, irq) ==
  /\ lastOp' = op
  /\ arg' = a
  /\ oldPrev' = oPrev
  /\ oldPulses' = oPulses
  /\ oldRevolutions' = oRevolutions
  /\ resetIrq' = irq
  /\ UNCHANGED <<owedDir, grayVars>>

\* what the speed estimator's claims observe of an operation
SpeedObs(op, a) ==
  /\ lastOp' = op
  /\ arg' = a
  /\ UNCHANGED <<oldPrev, oldPulses, oldRevolutions, resetIrq>>
  /\ UNCHANGED <<owedDir, grayVars>>

\* position on the gray-code cycle 00 -> 01 -> 11 -> 10 -> 00
GrayIndex(st) ==
  CASE st = 0 -> 0
    [] st = 1 -> 1
    [] st = 3 -> 2
    [] st = 2 -> 3

\* signed step on the cycle from prev to curr; 0 for none or a double flip
GrayStep(prev, curr) ==
  LET d == (GrayIndex(curr) - GrayIndex(prev)) % Cardinality(States)
  IN IF d = 1 THEN 1 ELSE IF d = Cardinality(States) - 1 THEN 0 - 1 ELSE 0

\* the walk stays intact until a double flip is sampled or the pulse count
\* is overwritten; lift is the net number of steps of an intact walk in 4x
\* mode
ObserveGray(op, a, intact) ==
  /\ lastOp' = op
  /\ arg' = a
  /\ UNCHANGED <<oldPrev, oldPulses, oldRevolutions, resetIrq>>
  /\ UNCHANGED <<patVars, scenVars, flowVars, owedDir, origin>>
  /\ clean' = (clean /\ intact)
  /\ lift' = IF ~clean' \/ encoding # X4_ENCODING THEN 0
             ELSE IF op = "encode" THEN lift + GrayStep(prevState, a)
             ELSE lift

\* what the claims about single runs of encode() observe of an operation
EdgeObs(op, a) ==
  /\ lastOp' = op
  /\ arg' = a
  /\ oldPrev' = prevState
  /\ UNCHANGED <<oldPulses, oldRevolutions, resetIrq>>
  /\ UNCHANGED <<scenN, scenD, scenT>>
  /\ UNCHANGED <<patVars, grayVars>>

\* ---------------------------------------------------------------- Init
InitFields ==
  /\ encoding \in {X2_ENCODING, X4_ENCODING}
  /\ currState \in States
  /\ prevState = currState
  /\ pulses = 0
  /\ revolutions = 0
  /\ fSpeedFactor = RatOne
  /\ fPositionFactor = RatOne
  /\ SpeedTimer = 0
  /\ nSpeedLastTimer = 0
  /\ nSpeedAvrTimeSum = 0
  /\ nSpeedAvrTimeCount = 0 - 1
  /\ fLastSpeed = RatZero
  /\ nSpeedTimeoutCount = 0
  /\ pc = "idle"
  /\ lastOp = "QEI"
  /\ ret = RatZero
  /\ arg = 0
  /\ oldPrev = 0
  /\ oldPulses = 0
  /\ oldRevolutions = 0
  /\ resetIrq = FALSE
  /\ pat = "none"
  /\ patLen = 0
  /\ patFwd = 0
  /\ patBwd = 0
  /\ everPulse = FALSE
  /\ queried = FALSE
  /\ scenN = 0
  /\ scenD = 0 - 1
  /\ scenT = 0
  /\ owedCount = 0
  /\ owedSum = 0
  /\ lastPulseT = 0
  /\ idleRun = 0
  /\ owedDir = "none"
  /\ lift = 0
  /\ clean = TRUE

\* the walk on the gray-code cycle is observed only where origin is set
Init == InitFields /\ origin = 0 - 1
InitGray == InitFields /\ origin = currState

\* ------------------------------------------------------------- actions
\* the free-running microsecond timer advances
TimerTick(d) ==
  /\ SpeedTimer' = SpeedTimer + d
  /\ UNCHANGED <<encoding, prevState, currState, pulses, revolutions,
                 fSpeedFactor, fPositionFactor, nSpeedLastTimer,
                 nSpeedAvrTimeSum, nSpeedAvrTimeCount, fLastSpeed,
                 nSpeedTimeoutCount, pc, ret>>

\* an encode() that records a speed event on every run
encode_AlwaysPushes(s) ==
  LET change == Change(encoding, prevState, s)
      act == SpeedTimer
      diff == act - nSpeedLastTimer
  IN
  /\ currState' = s
  /\ pulses' = PulsesAfter(pulses, change)
  /\ prevState' = s
  /\ nSpeedLastTimer' = act
  /\ nSpeedAvrTimeSum' =
       WindowSum(nSpeedAvrTimeSum, nSpeedAvrTimeCount, change, diff)
  /\ nSpeedAvrTimeCount' = WindowCount(nSpeedAvrTimeCount)
  /\ ret' = RatZero
  /\ UNCHANGED <<encoding, revolutions, fSpeedFactor, fPositionFactor,
                 SpeedTimer, fLastSpeed, nSpeedTimeoutCount, pc>>

\* interrupt handler encode(); s is the state sampled from the two lines
encode(s) ==
  LET change == Change(encoding, prevState, s)
      act == SpeedTimer
      diff == act - nSpeedLastTimer
  IN
  /\ currState' = s
  /\ pulses' = PulsesAfter(pulses, change)
  /\ prevState' = s
  /\ IF change # 0 - 1
     THEN /\ nSpeedLastTimer' = act
          /\ nSpeedAvrTimeSum' =
               WindowSum(nSpeedAvrTimeSum, nSpeedAvrTimeCount, change, diff)
          /\ nSpeedAvrTimeCount' = WindowCount(nSpeedAvrTimeCount)
     ELSE UNCHANGED <<nSpeedLastTimer, nSpeedAvrTimeSum, nSpeedAvrTimeCount>>
  /\ ret' = RatZero
  /\ UNCHANGED <<encoding, revolutions, fSpeedFactor, fPositionFactor,
                 SpeedTimer, fLastSpeed, nSpeedTimeoutCount, pc>>

\* an index handler that counts each event twice
index_CountsTwice ==
  /\ revolutions' = revolutions + 2
  /\ ret' = RatZero
  /\ UNCHANGED <<encoding, prevState, currState, pulses, fSpeedFactor,
                 fPositionFactor, SpeedTimer, nSpeedLastTimer,
                 nSpeedAvrTimeSum, nSpeedAvrTimeCount, fLastSpeed,
                 nSpeedTimeoutCount, pc>>

\* interrupt handler index()
index ==
  /\ revolutions' = revolutions + 1
  /\ ret' = RatZero
  /\ UNCHANGED <<encoding, prevState, currState, pulses, fSpeedFactor,
                 fPositionFactor, SpeedTimer, nSpeedLastTimer,
                 nSpeedAvrTimeSum, nSpeedAvrTimeCount, fLastSpeed,
                 nSpeedTimeoutCount, pc>>

\* reset(), first store: _pulses = 0
reset_pulses ==
  /\ pc = "idle"
  /\ pulses' = 0
  /\ pc' = "reset"
  /\ ret' = RatZero
  /\ UNCHANGED <<encoding, prevState, currState, revolutions, fSpeedFactor,
                 fPositionFactor, SpeedTimer, nSpeedLastTimer,
                 nSpeedAvrTimeSum, nSpeedAvrTimeCount, fLastSpeed,
                 nSpeedTimeoutCount>>

\* a reset() that leaves the revolution count
reset_revolutions_Skipped ==
  /\ pc = "reset"
  /\ pc' = "idle"
  /\ ret' = RatZero
  /\ UNCHANGED <<encoding, prevState, currState, pulses, revolutions,
                 fSpeedFactor, fPositionFactor, SpeedTimer, nSpeedLastTimer,
                 nSpeedAvrTimeSum, nSpeedAvrTimeCount, fLastSpeed,
                 nSpeedTimeoutCount>>

\* reset(), second store: _revolutions = 0, then return
reset_revolutions ==
  /\ pc = "reset"
  /\ revolutions' = 0
  /\ pc' = "idle"
  /\ ret' = RatZero
  /\ UNCHANGED <<encoding, prevState, currState, pulses, fSpeedFactor,
                 fPositionFactor, SpeedTimer, nSpeedLastTimer,
                 nSpeedAvrTimeSum, nSpeedAvrTimeCount, fLastSpeed,
                 nSpeedTimeoutCount>>

read ==
  /\ pc = "idle"
  /\ ret' = RatOfInt(pulses)
  /\ UNCHANGED progVars

\* a write() that adds to the count
write_Adds(v) ==
  /\ pc = "idle"
  /\ pulses' = pulses + v
  /\ ret' = RatZero
  /\ UNCHANGED <<encoding, prevState, currState, revolutions, fSpeedFactor,
                 fPositionFactor, SpeedTimer, nSpeedLastTimer,
                 nSpeedAvrTimeSum, nSpeedAvrTimeCount, fLastSpeed,
                 nSpeedTimeoutCount, pc>>

write(v) ==
  /\ pc = "idle"
  /\ pulses' = v
  /\ ret' = RatZero
  /\ UNCHANGED <<encoding, prevState, currState, revolutions, fSpeedFactor,
                 fPositionFactor, SpeedTimer, nSpeedLastTimer,
                 nSpeedAvrTimeSum, nSpeedAvrTimeCount, fLastSpeed,
                 nSpeedTimeoutCount, pc>>

setSpeedFactor(f) ==
  /\ pc = "idle"
  /\ fSpeedFactor' = f
  /\ ret' = RatZero
  /\ UNCHANGED <<encoding, prevState, currState, pulses, revolutions,
                 fPositionFactor, SpeedTimer, nSpeedLastTimer,
                 nSpeedAvrTimeSum, nSpeedAvrTimeCount, fLastSpeed,
                 nSpeedTimeoutCount, pc>>

\* a getSpeed() that reads the window sum and leaves it in place
getSpeed_KeepsSum ==
  LET avrTimeSum == nSpeedAvrTimeSum
      avrTimeCount == nSpeedAvrTimeCount
      fSpeed == SpeedOf(avrTimeSum, avrTimeCount, fLastSpeed,
                        nSpeedTimeoutCount, fSpeedFactor)
  IN
  /\ pc = "idle"
  /\ nSpeedAvrTimeSum' = nSpeedAvrTimeSum
  /\ nSpeedAvrTimeCount' = 0
  /\ nSpeedTimeoutCount' = TimeoutAfter(avrTimeCount, nSpeedTimeoutCount)
  /\ fLastSpeed' = fSpeed
  /\ ret' = fSpeed
  /\ UNCHANGED <<encoding, prevState, currState, pulses, revolutions,
                 fSpeedFactor, fPositionFactor, SpeedTimer, nSpeedLastTimer,
                 pc>>

getSpeed ==
  LET avrTimeSum == nSpeedAvrTimeSum
      avrTimeCount == nSpeedAvrTimeCount
      fSpeed == SpeedOf(avrTimeSum, avrTimeCount, fLastSpeed,
                        nSpeedTimeoutCount, fSpeedFactor)
  IN
  /\ pc = "idle"
  /\ nSpeedAvrTimeSum' = 0
  /\ nSpeedAvrTimeCount' = 0
  /\ nSpeedTimeoutCount' = TimeoutAfter(avrTimeCount, nSpeedTimeoutCount)
  /\ fLastSpeed' = fSpeed
  /\ ret' = fSpeed
  /\ UNCHANGED <<encoding, prevState, currState, pulses, revolutions,
                 fSpeedFactor, fPositionFactor, SpeedTimer, nSpeedLastTimer,
                 pc>>

setPositionFactor(f) ==
  /\ pc = "idle"
  /\ fPositionFactor' = f
  /\ ret' = RatZero
  /\ UNCHANGED <<encoding, prevState, currState, pulses, revolutions,
                 fSpeedFactor, SpeedTimer, nSpeedLastTimer,
                 nSpeedAvrTimeSum, nSpeedAvrTimeCount, fLastSpeed,
                 nSpeedTimeoutCount, pc>>

getPosition ==
  /\ pc = "idle"
  /\ ret' = PositionOf(pulses, fPositionFactor)
  /\ UNCHANGED progVars

\* ---------------------------------------------------- specifications
\* decoder and position tracker: no time passes and no speed is queried
NextDecoder ==
  \/ \E s \in States :
       /\ encode(s)
       /\ pulses' \in PulseRange
       /\ nSpeedAvrTimeCount' < MaxEvents
       /\ DecoderObs("encode", s, prevState, pulses, 0, pc = "reset")
       /\ ObservePattern(s)
       /\ UNCHANGED <<scenVars, flowVars>>
  \/ /\ index
     /\ revolutions' <= MaxRevolutions
     /\ DecoderObs("index", 0, 0, 0, revolutions, pc = "reset")
     /\ UNCHANGED <<patVars, scenVars, flowVars>>
  \/ /\ reset_pulses
     /\ DecoderObs("reset_pulses", 0, 0, pulses, 0, FALSE)
     /\ ForgetPattern
     /\ UNCHANGED <<scenVars, flowVars>>
  \/ /\ reset_revolutions
     /\ DecoderObs("reset", 0, 0, oldPulses, revolutions, resetIrq)
     /\ UNCHANGED <<patVars, scenVars, flowVars>>
  \/ /\ read
     /\ DecoderObs(IF lastOp = "write" THEN "write_read" ELSE "read",
                   IF lastOp = "write" THEN arg ELSE 0, 0, 0, 0, FALSE)
     /\ UNCHANGED <<patVars, scenVars, flowVars>>
  \/ \E v \in PulseRange :
       /\ write(v)
       /\ DecoderObs("write", v, 0, pulses, 0, FALSE)
       /\ ForgetPattern
       /\ UNCHANGED <<scenVars, flowVars>>
  \/ \E f \in FactorValues :
       /\ setPositionFactor(f)
       /\ DecoderObs("setPositionFactor", 0, 0, 0, 0, FALSE)
       /\ UNCHANGED <<patVars, scenVars, flowVars>>
  \/ /\ getPosition
     /\ DecoderObs("getPosition", 0, 0, 0, 0, FALSE)
     /\ UNCHANGED <<patVars, scenVars, flowVars>>

\* decoder and speed estimator, within the given bounds
SpeedSteps(maxTimer, maxPulses, maxCount, maxTimeouts) ==
  \/ \E d \in TickSteps :
       /\ TimerTick(d)
       /\ SpeedTimer' <= maxTimer
       /\ UNCHANGED <<opVars, patVars, scenVars, flowVars, owedDir, grayVars>>
  \/ \E s \in States :
       /\ encode(s)
       /\ pulses' \in (0 - maxPulses)..maxPulses
       /\ nSpeedAvrTimeCount' <= maxCount
       /\ SpeedObs("encode", s)
       /\ ObservePulse
       /\ ObserveFlowPulse
       /\ UNCHANGED patVars
  \/ \E f \in SpeedFactorValues :
       /\ setSpeedFactor(f)
       /\ SpeedObs("setSpeedFactor", 0)
       /\ UNCHANGED <<patVars, scenVars, flowVars>>
  \/ /\ getSpeed
     /\ nSpeedTimeoutCount' <= maxTimeouts
     /\ SpeedObs("getSpeed", 0)
     /\ ObserveQuery
     /\ ObserveFlowQuery
     /\ UNCHANGED patVars

\* the averaging window: many pulses, few idle queries
NextSpeed == SpeedSteps(MaxTimer, MaxPulses, MaxCount, MaxTimeouts)

\* the timeout path: few pulses, many idle queries
NextIdle == SpeedSteps(MaxIdleTimer, MaxIdlePulses, 1, MaxIdleQueries)

\* single runs of encode() around a window that is opened, filled, drained
NextEdges ==
  \/ \E d \in TickSteps :
       /\ TimerTick(d)
       /\ SpeedTimer' <= MaxEdgeTimer
       /\ UNCHANGED <<opVars, patVars, scenVars, flowVars, owedDir, grayVars>>
  \/ \E s \in States :
       /\ encode(s)
       /\ pulses' \in (0 - MaxIdlePulses)..MaxIdlePulses
       /\ nSpeedAvrTimeCount' <= MaxEdgeCount
       /\ EdgeObs("encode", s)
       /\ everPulse' = (everPulse \/ pulses' # pulses)
       /\ UNCHANGED queried
       /\ ObserveFlowPulse
       /\ ObserveDirPulse
  \/ /\ getSpeed
     /\ nSpeedTimeoutCount' <= MaxTimeouts
     /\ EdgeObs("getSpeed", 0)
     /\ queried' = TRUE
     /\ UNCHANGED everPulse
     /\ ObserveFlowQuery
     /\ ObserveDirQuery

\* the decoder walking the gray-code cycle from the state sampled at
\* construction, with the calls that overwrite the pulse count
NextGray ==
  \/ \E s \in States :
       /\ encode(s)
       /\ pulses' \in PulseRange
       /\ nSpeedAvrTimeCount' < MaxEvents
       /\ ObserveGray("encode", s, BitXor2(s, prevState) # INVALID)
  \/ /\ reset_pulses
     /\ ObserveGray("reset_pulses", 0, FALSE)
  \/ /\ reset_revolutions
     /\ ObserveGray("reset", 0, FALSE)
  \/ /\ read
     /\ ObserveGray("read", 0, TRUE)
  \/ \E v \in PulseRange :
       /\ write(v)
       /\ ObserveGray("write", v, FALSE)

SpecDecoder == Init /\ [][NextDecoder]_vars
SpecGray == InitGray /\ [][NextGray]_vars
SpecEdges == Init /\ [][NextEdges]_vars
SpecSpeed == Init /\ [][NextSpeed]_vars
SpecIdle == Init /\ [][NextIdle]_vars

\* ------------------------------------------------------------- claims
SingleBit(a, b) == <<a, b>> \in {<<0, 1>>, <<1, 3>>, <<3, 2>>, <<2, 0>>,
                                 <<0, 2>>, <<2, 3>>, <<3, 1>>, <<1, 0>>}
DoubleFlips == {<<0, 3>>, <<3, 0>>, <<1, 2>>, <<2, 1>>}
\* left to right, and right to left, in  00 01 11 10 00
LeftToRight == {<<0, 1>>, <<1, 3>>, <<3, 2>>, <<2, 0>>}
RightToLeft == {<<0, 2>>, <<2, 3>>, <<3, 1>>, <<1, 0>>}
\* the pairs a steady rotation shows at the channel-A edges
SteadyEdges2x == {<<3, 0>>, <<0, 3>>, <<2, 1>>, <<1, 2>>}

C3_OnePerEdge2x ==
  (encoding = X2_ENCODING /\ lastOp = "encode"
     /\ <<oldPrev, arg>> \in SteadyEdges2x) =>
    Abs(pulses - oldPulses) = 1

\* C4: in 4x mode a valid change going left to right in 00 01 11 10 00
\* lowers the pulse count by one, and one going right to left raises it by
\* one.
C4_DirectionAsDocumented ==
  (encoding = X4_ENCODING /\ lastOp = "encode") =>
    /\ <<oldPrev, arg>> \in LeftToRight => pulses = oldPulses - 1
    /\ <<oldPrev, arg>> \in RightToLeft => pulses = oldPulses + 1

\* C5: in 4x mode an encode whose sample differs from the previous state in
\* both bits leaves the pulse count alone and makes the sample the previous
\* state.
C5_DoubleFlipIgnored ==
  (encoding = X4_ENCODING /\ lastOp = "encode"
     /\ <<oldPrev, arg>> \in DoubleFlips) =>
    (pulses = oldPulses /\ prevState = arg)

C5_Witness ==
  /\ encoding = X4_ENCODING
  /\ lastOp = "encode"
  /\ <<oldPrev, arg>> = <<1, 2>>
  /\ pulses # 0

\* C6: when reset() returns and no handler ran inside it, the pulse count
\* and the revolution count are both 0.
C6_ResetZeroes ==
  (lastOp = "reset" /\ ~resetIrq) => (pulses = 0 /\ revolutions = 0)

C6_Witness ==
  /\ lastOp = "reset"
  /\ ~resetIrq
  /\ oldPulses < 0
  /\ oldRevolutions > 0

\* C7: read() right after write(v) returns v.
C7_WriteThenRead ==
  lastOp = "write_read" => ret = RatOfInt(arg)

C7_Witness ==
  /\ lastOp = "write_read"
  /\ arg < 0
  /\ revolutions > 0
  /\ prevState # 0

\* C8: getPosition() returns pulse count times position factor and changes
\* no field of the object.
C8_GetPositionPure ==
  [][lastOp' = "getPosition" =>
       /\ UNCHANGED progVars
       /\ ret'[1] * fPositionFactor[2] = pulses * fPositionFactor[1] * ret'[2]
       /\ ret'[2] > 0]_vars

C8_Witness ==
  /\ lastOp = "getPosition"
  /\ fPositionFactor[1] < 0
  /\ pulses > 0
  /\ ret[1] < 0

\* C9: with no speed query before them, n >= 2 forward pulses d microseconds
\* apart leave count = n - 1 and sum = (n - 1) * d in the window, and a
\* getSpeed() right after them reports 1,000,000 * speedFactor / d (d >= 1);
\* for n = 4, d = 1000, factor 1: pulse count 4, speed 1000.
C9_UniformForwardWindow ==
  /\ (scenN >= 2 /\ ~queried) =>
       /\ nSpeedAvrTimeCount = scenN - 1
       /\ nSpeedAvrTimeSum = (scenN - 1) * scenD
  /\ (scenN >= 2 /\ scenD >= 1 /\ lastOp = "getSpeed") =>
       /\ ret[1] * scenD * fSpeedFactor[2]
            = MicrosPerSecond * fSpeedFactor[1] * ret[2]
       /\ ret[2] > 0
  /\ (scenN = 4 /\ scenD = 1000 /\ fSpeedFactor = RatOne
        /\ lastOp = "getSpeed") =>
       (pulses = 4 /\ ret = <<1000, 1>>)

C9_Witness ==
  /\ encoding = X4_ENCODING
  /\ lastOp = "getSpeed"
  /\ scenN = 4
  /\ scenD = 1000
  /\ fSpeedFactor = RatOne
  /\ ret = <<1000, 1>>

C11_HalvesAfterMaxPlusOne ==
  [][(lastOp' = "getSpeed" /\ SpeedTimer' = SpeedTimer
        /\ nSpeedAvrTimeCount = 0) =>
       /\ nSpeedTimeoutCount' = idleRun'
       /\ ret' = IF idleRun' > TimeoutMax + 1
                 THEN RatMul(fLastSpeed, RatHalf)
                 ELSE fLastSpeed
       /\ fLastSpeed' = ret']_vars

C11_Witness ==
  /\ lastOp = "getSpeed"
  /\ idleRun = TimeoutMax + 2
  /\ ret = <<MicrosPerSecond \div (2 * MaxIdleTimer), 1>>

\* C11 (as stated): the k-th such call halves LastSpeed if and only if
\* k > TimeoutMax.
C11_HalvesAfterMax ==
  [][(lastOp' = "getSpeed" /\ SpeedTimer' = SpeedTimer
        /\ nSpeedAvrTimeCount = 0) =>
       ret' = IF idleRun' > TimeoutMax
              THEN RatMul(fLastSpeed, RatHalf)
              ELSE fLastSpeed]_vars

\* C12: each run of the index handler raises the revolution count by
\* exactly 1 and leaves the pulse count, the previous and current state and
\* the speed window as they were; from 0, one index event gives 1.
C12_IndexCountsOne ==
  [][lastOp' = "index" =>
       /\ revolutions' = revolutions + 1
       /\ UNCHANGED <<pulses, prevState, currState, nSpeedLastTimer,
                      nSpeedAvrTimeSum, nSpeedAvrTimeCount>>]_vars

C12_Witness ==
  /\ lastOp = "index"
  /\ oldRevolutions = 0
  /\ revolutions = 1
  /\ pulses # 0
  /\ nSpeedAvrTimeCount > 0

\* C14 (as stated): no encode or index handler runs between the two stores
\* of reset(), and both counters are 0 when reset() returns.
C14_ResetAtomic ==
  /\ pc = "reset" => lastOp = "reset_pulses"
  /\ lastOp = "reset" => (pulses = 0 /\ revolutions = 0)

\* C13: whatever the interleaving of encode interrupts and getSpeed() calls,
\* no accumulated sample is lost or counted twice: the pulses accumulated by
\* encode less the counts drained by the queries so far (a drained -1 taken
\* as 0) are exactly the count in the window, and the signed deltas
\* accumulated less the sums drained are exactly the sum in the window.
C13_NothingLostOrDoubled ==
  /\ owedCount = Max(nSpeedAvrTimeCount, 0)
  /\ owedSum = nSpeedAvrTimeSum

C13_Witness ==
  /\ lastOp = "encode"
  /\ fLastSpeed[1] > 0
  /\ nSpeedAvrTimeCount = 2
  /\ nSpeedAvrTimeSum < 0

\* C15 (as amended): the timeout counter is not capped by TimeoutMax; it is
\* the number of consecutive getSpeed() calls that found the window empty
\* (count == 0) since the last call that found it otherwise, and it grows
\* past TimeoutMax as long as such calls continue.
C15_CountsIdleRun ==
  /\ nSpeedTimeoutCount = idleRun
  /\ nSpeedTimeoutCount >= 0

C15_Witness ==
  /\ everPulse
  /\ nSpeedTimeoutCount = TimeoutMax + 2

\* C15 (as stated): the timeout counter never exceeds TimeoutMax.
C15_Capped == nSpeedTimeoutCount <= TimeoutMax

\* C16: in both encoding modes a run of encode() that samples the state
\* already held as the previous state (as the second of two runs on the
\* same line values does) changes nothing: not the pulse count, not the
\* previous state, not the speed window, not the last timestamp.
C16_RepeatedSampleIdle ==
  [][(lastOp' = "encode" /\ SpeedTimer' = SpeedTimer /\ arg' = prevState) =>
       UNCHANGED <<pulses, prevState, currState, nSpeedAvrTimeSum,
                   nSpeedAvrTimeCount, nSpeedLastTimer>>]_vars

C16_Witness ==
  /\ lastOp = "encode"
  /\ arg = oldPrev
  /\ pulses # 0
  /\ nSpeedAvrTimeCount > 0
  /\ nSpeedLastTimer < SpeedTimer

\* C17: a run of encode() records a speed event (stamps the last timestamp
\* and opens or extends the window) if and only if it changed the pulse
\* count by +1 or -1; on every other run the window sum, the window count
\* and the last timestamp are unchanged.
C17_EventIffPulse ==
  [][(lastOp' = "encode" /\ SpeedTimer' = SpeedTimer) =>
       IF pulses' # pulses
       THEN /\ pulses' \in {pulses + 1, pulses - 1}
            /\ nSpeedLastTimer' = SpeedTimer
            /\ nSpeedAvrTimeCount' = Max(nSpeedAvrTimeCount, 0 - 1) + 1
            /\ nSpeedAvrTimeSum' =
                 IF nSpeedAvrTimeCount < 0 THEN 0
                 ELSE nSpeedAvrTimeSum + (pulses' - pulses)
                                          * (SpeedTimer - nSpeedLastTimer)
       ELSE UNCHANGED <<nSpeedAvrTimeSum, nSpeedAvrTimeCount,
                        nSpeedLastTimer>>]_vars

C17_Witness ==
  /\ encoding = X4_ENCODING
  /\ lastOp = "encode"
  /\ BitXor2(arg, oldPrev) = INVALID
  /\ nSpeedAvrTimeCount > 0
  /\ nSpeedLastTimer < SpeedTimer

\* C18 (as stated): the time delta of the first valid pulse after
\* construction is discarded, whatever calls came before it: that pulse
\* leaves the window open with sum 0 and count 0.
C18_FirstDeltaDiscarded ==
  [][(lastOp' = "encode" /\ SpeedTimer' = SpeedTimer
        /\ ~everPulse /\ pulses' # pulses) =>
       (nSpeedAvrTimeSum' = 0 /\ nSpeedAvrTimeCount' = 0)]_vars

\* C20: between runs of encode() the window has count >= -1 and, when
\* count <= 0, sum = 0; the count is 0 only when no pulse has been
\* accumulated since the last drain (or since the window was opened), and
\* -1 only before the first valid pulse and the first query; a window of
\* pulses all in one direction with time deltas above zero has a sum of
\* that sign, so count > 0 with sum = 0 comes only from deltas that cancel
\* or are zero.
C20_WindowShape ==
  /\ nSpeedAvrTimeCount >= 0 - 1
  /\ nSpeedAvrTimeCount <= 0 => nSpeedAvrTimeSum = 0
  /\ nSpeedAvrTimeCount = 0 => (owedCount = 0 /\ owedDir = "none")
  /\ nSpeedAvrTimeCount = 0 - 1 <=> (~everPulse /\ ~queried)
  /\ nSpeedAvrTimeCount > 0 => owedDir # "none"
  /\ owedDir = "forward" => nSpeedAvrTimeSum > 0
  /\ owedDir = "backward" => nSpeedAvrTimeSum < 0

C20_Witness ==
  /\ lastOp = "encode"
  /\ queried
  /\ nSpeedAvrTimeCount = 2
  /\ nSpeedAvrTimeSum = 0
  /\ nSpeedLastTimer = 2000
  /\ owedDir = "mixed"

====
